---- MODULE Spec2Model ----
(***************************************************************************)
(* Model of backend/main.py of the AI Study Assistant: the LLM adapter     *)
(* llm_chat, the three LangGraph nodes, the compiled graph and the two     *)
(* POST endpoints.                                                         *)
(*                                                                         *)
(* A Python str is a sequence of one-character strings; a Python list of   *)
(* str is a sequence of such sequences; a dict is a function whose domain  *)
(* is its key set; an Optional value is the empty set (None) or a          *)
(* singleton.  A prompt built by an f-string is a record naming the        *)
(* template and the values substituted into it.                            *)
(***************************************************************************)
EXTENDS Integers, Sequences, FiniteSets, TLC

\* ------------------------------------------------------------------ bounds

\* longest text of the exhaustive set of model replies
MaxLen == 5
\* most lines of a structured model reply
MaxLines == 2
\* longest quiz_questions / user_answers of a request body
MaxItems == 3

\* ------------------------------------------------------------ characters

\* characters for which str.isdigit() is true
Digits == {"1", "2"}
\* characters removed by str.strip()
Whitespace == {" ", "\n"}
\* line boundaries of str.splitlines()
LineBreaks == {"\n"}

SetMin(S) == CHOOSE x \in S : \A y \in S : x <= y
SetMax(S) == CHOOSE x \in S : \A y \in S : y <= x

\* str.strip()
Strip(s) ==
    LET keep == {i \in 1..Len(s) : s[i] \notin Whitespace}
    IN  IF keep = {} THEN <<>> ELSE SubSeq(s, SetMin(keep), SetMax(keep))

\* str.splitlines(): no line for the empty text, none after a final break
RECURSIVE SplitLines(_)
SplitLines(s) ==
    IF s = <<>> THEN <<>>
    ELSE LET brk == {i \in 1..Len(s) : s[i] \in LineBreaks}
         IN  IF brk = {} THEN <<s>>
             ELSE <<SubSeq(s, 1, SetMin(brk) - 1)>>
                  \o SplitLines(SubSeq(s, SetMin(brk) + 1, Len(s)))

\* line.split('.', 1)[-1] as a bug would have it: split at the last period
SplitPeriodAtLast(line) ==
    LET ps == {i \in 1..Len(line) : line[i] = "."}
    IN  IF ps = {} THEN line ELSE SubSeq(line, SetMax(ps) + 1, Len(line))

\* line.split('.', 1)[-1]: the text after the first period, the whole line
\* when it holds no period
SplitPeriodLast(line) ==
    LET ps == {i \in 1..Len(line) : line[i] = "."}
    IN  IF ps = {} THEN line ELSE SubSeq(line, SetMin(ps) + 1, Len(line))

\* line and (line[0].isdigit() or line.startswith("-"))
KeepLine(line) == line # <<>> /\ (line[1] \in Digits \/ line[1] = "-")

\* the loop over quiz_text.splitlines()
RECURSIVE CollectQuestions(_)
CollectQuestions(lines) ==
    IF lines = <<>> THEN <<>>
    ELSE LET line == Strip(Head(lines))
             q    == Strip(SplitPeriodLast(line))
         IN  (IF KeepLine(line) /\ q # <<>> THEN <<q>> ELSE <<>>)
             \o CollectQuestions(Tail(lines))

\* the parse as a bug would have it: the fallback forgotten
ParseQuestionsNoFallback(quiz_text) == CollectQuestions(SplitLines(quiz_text))

\* questions = [...]; if not questions: questions = [quiz_text]
ParseQuestions(quiz_text) ==
    LET questions == CollectQuestions(SplitLines(quiz_text))
    IN  IF questions = <<>> THEN <<quiz_text>> ELSE questions

\* ------------------------------------------------------------ the adapter

\* What client.chat.completions.create and the reading of its response do:
\* the call raises, the response has no choice, the choice has no content,
\* or the content is a text.
FailureKinds == {"network_error", "no_choices", "no_content"}
Failures == {[kind |-> k, content |-> <<>>] : k \in FailureKinds}
Reply(c) == [kind |-> "ok", content |-> c]

\* llm_chat as a bug would have it: no try/except around the call
LlmChatUncaught(outcome) ==
    IF outcome.kind = "ok"
    THEN [raised |-> FALSE, text |-> Strip(outcome.content)]
    ELSE [raised |-> TRUE, text |-> <<>>]

\* llm_chat: the stripped content, "" on any exception
LlmChat(outcome) ==
    IF outcome.kind = "ok"
    THEN [raised |-> FALSE, text |-> Strip(outcome.content)]
    ELSE [raised |-> FALSE, text |-> <<>>]

\* --------------------------------------------------------------- the nodes

\* state.get(key, default)
Get(state, key, default) == IF key \in DOMAIN state THEN state[key] ELSE default

\* {"summary": summary}
SummaryUpdate(summary) == [k \in {"summary"} |-> summary]
\* {"quiz_text": quiz_text, "quiz_questions": questions}
QuizUpdate(quiz_text, questions) ==
    [k \in {"quiz_text", "quiz_questions"} |->
        IF k = "quiz_text" THEN quiz_text ELSE questions]
\* {"feedback": feedback}
FeedbackUpdate(feedback) == [k \in {"feedback"} |-> feedback]

SummarizerPrompt(state) ==
    [template |-> "summarizer", topic |-> Get(state, "topic", <<>>)]

summarizer_node(state, outcome) ==
    LET r == LlmChat(outcome)
    IN  [raised |-> r.raised,
         prompt |-> SummarizerPrompt(state),
         update |-> SummaryUpdate(r.text)]

QuizPrompt(state) ==
    [template |-> "quiz_generator", summary |-> Get(state, "summary", <<>>)]

quiz_generator_node(state, outcome) ==
    LET r == LlmChat(outcome)
    IN  [raised |-> r.raised,
         prompt |-> QuizPrompt(state),
         update |-> QuizUpdate(r.text, ParseQuestions(r.text))]

Min2(a, b) == IF a <= b THEN a ELSE b

\* enumerate(zip(questions, answers), start=1) as a bug would have it:
\* walking the questions and indexing the answers
PairListingByQuestions(questions, answers) ==
    [i \in 1..Len(questions) |->
        [n |-> i, q |-> questions[i],
         a |-> IF i <= Len(answers) THEN answers[i] ELSE <<>>]]

\* enumerate(zip(questions, answers), start=1): one "i. Q: q / A: a" entry
\* per pair
PairListing(questions, answers) ==
    [i \in 1..Min2(Len(questions), Len(answers)) |->
        [n |-> i, q |-> questions[i], a |-> answers[i]]]

EvaluatorPrompt(state) ==
    [template |-> "evaluator",
     summary  |-> Get(state, "summary", <<>>),
     listing  |-> PairListing(Get(state, "quiz_questions", <<>>),
                              Get(state, "user_answers", <<>>))]

evaluator_node(state, outcome) ==
    LET r == LlmChat(outcome)
    IN  [raised |-> r.raised,
         prompt |-> EvaluatorPrompt(state),
         update |-> FeedbackUpdate(r.text)]

\* --------------------------------------------------------------- the graph

Nodes == {"summarizer", "quiz_generator", "evaluator"}

\* the graph as a bug would have it: the finish point set before grading
EdgesStoppingBeforeGrading ==
    {<<"__start__", "summarizer">>, <<"summarizer", "quiz_generator">>,
     <<"quiz_generator", "__end__">>}

\* the graph as a bug would have it: the quiz generator left out of the chain
EdgesSkippingQuiz ==
    {<<"__start__", "summarizer">>, <<"summarizer", "evaluator">>,
     <<"quiz_generator", "evaluator">>, <<"evaluator", "__end__">>}

\* add_edge("summarizer", "quiz_generator"), add_edge("quiz_generator",
\* "evaluator"), add_edge("__start__", "summarizer"),
\* set_finish_point("evaluator")
Edges ==
    {<<"__start__", "summarizer">>, <<"summarizer", "quiz_generator">>,
     <<"quiz_generator", "evaluator">>, <<"evaluator", "__end__">>}

\* the node the compiled graph runs after n
Successor(n) == CHOOSE m \in Nodes \cup {"__end__"} : <<n, m>> \in Edges

\* the function add_node registered under the name
RunNode(name, state, outcome) ==
    CASE name = "summarizer"     -> summarizer_node(state, outcome)
      [] name = "quiz_generator" -> quiz_generator_node(state, outcome)
      [] name = "evaluator"      -> evaluator_node(state, outcome)

\* StateGraph(dict): how a node's returned mapping updates the state is
\* fixed by the installed langgraph, which is no part of the repository.  A
\* schema with per-key channels merges the returned keys into the state; a
\* bare dict held in one root channel is replaced by the returned mapping.
\* The model covers both.
ChannelModes == {"keys", "root"}

ApplyUpdate(mode, state, update) ==
    IF mode = "root" THEN update
    ELSE [k \in DOMAIN state \cup DOMAIN update |->
            IF k \in DOMAIN update THEN update[k] ELSE state[k]]

\* ----------------------------------------------------------- the requests

\* an Optional value: {} is None
None == {}
Some(v) == {v}
\* x or default
OrDefault(opt, default) ==
    IF opt = None \/ opt = Some(<<>>) THEN default
    ELSE CHOOSE v \in opt : TRUE
\* result.get(key): None when the key is missing
GetOpt(state, key) == IF key \in DOMAIN state THEN Some(state[key]) ELSE None

\* class StudyRequest as a bug would have it: topic: str = ""
StudyRequestLenient(body) ==
    [valid |-> TRUE, topic |-> Get(body, "topic", <<>>)]

\* class StudyRequest(BaseModel): topic: str  (no default: required)
StudyRequest(body) ==
    [valid |-> "topic" \in DOMAIN body, topic |-> Get(body, "topic", <<>>)]

\* class EvalRequest(BaseModel): topic required, the others default to None
EvalRequest(body) ==
    [valid          |-> "topic" \in DOMAIN body,
     topic          |-> Get(body, "topic", <<>>),
     summary        |-> GetOpt(body, "summary"),
     quiz_questions |-> GetOpt(body, "quiz_questions"),
     user_answers   |-> GetOpt(body, "user_answers")]

\* the state dict built by evaluate()
EvaluateState(req) ==
    [k \in {"topic", "summary", "quiz_questions", "user_answers"} |->
        CASE k = "topic"          -> req.topic
          [] k = "summary"        -> OrDefault(req.summary, <<>>)
          [] k = "quiz_questions" -> OrDefault(req.quiz_questions, <<>>)
          [] k = "user_answers"   -> OrDefault(req.user_answers, <<>>)]

\* HTTP status of a response
Ok == 200
Unprocessable == 422
ServerError == 500

\* --------------------------------------------------- inputs of the model

Topics == {<<>>, <<"a">>}
Summaries == {<<"b">>}
Items == {<<"a">>, <<"b">>}
ItemLists == UNION {[1..n -> Items] : n \in 0..MaxItems}

\* a JSON object holding the keys whose option is not None
MkBody(fields) ==
    [k \in {f \in DOMAIN fields : fields[f] # None} |->
        CHOOSE v \in fields[k] : TRUE]

Opt(S) == {None} \cup {Some(v) : v \in S}

StudyBodies == {MkBody([topic |-> t]) : t \in Opt(Topics)}

EvalBodies ==
    {MkBody([topic |-> t, summary |-> s, quiz_questions |-> q, user_answers |-> a]) :
        t \in Opt(Topics), s \in Opt(Summaries),
        q \in Opt(ItemLists), a \in Opt(ItemLists)}

\* model replies seen by the endpoints
Replies ==
    {<<>>, <<" ", "a", " ">>, <<"a">>, <<"-", " ", "a">>,
     <<"1", ".", " ", "a", "\n", "2", ".", " ", "b">>}
Outcomes == Failures \cup {Reply(c) : c \in Replies}

\* model replies seen by the quiz generator alone: every text of at most
\* MaxLen characters, and every text of at most MaxLines lines of SampleLines
Alphabet == {"1", ".", "-", " ", "\n", "a"}
ShortTexts == UNION {[1..n -> Alphabet] : n \in 0..MaxLen}
SampleLines ==
    {<<"1", ".", " ", "a">>, <<"2", ".", " ", "b">>,
     <<"1", "2", ".", " ", "a", ".", "b">>, <<" ", "1", ".", "a", " ">>,
     <<"1", ".", " ", " ">>, <<"-", " ", "a">>, <<"1", ")", " ", "a">>,
     <<"-", " ", "a", ".", "b">>, <<"a", ".">>, <<>>}
RECURSIVE JoinLines(_)
JoinLines(ls) ==
    IF ls = <<>> THEN <<>>
    ELSE IF Len(ls) = 1 THEN ls[1]
    ELSE ls[1] \o <<"\n">> \o JoinLines(Tail(ls))
LinedTexts == {JoinLines(ls) : ls \in UNION {[1..n -> SampleLines] : n \in 1..MaxLines}}
QuizOutcomes == Failures \cup {Reply(c) : c \in ShortTexts \cup LinedTexts}

\* ------------------------------------------------------------------ state

VARIABLES
    channel,      \* how the compiled graph updates its state (ChannelModes)
    phase,        \* "idle", "running" (inside graph.invoke), "responded"
    handler,      \* the endpoint serving the request: "none", "study", "evaluate"
    body,         \* the JSON body of the request
    node,         \* the node the graph runs next
    state,        \* the PipelineState of the invocation
    invoked,      \* the node calls made: name, state read, mapping returned
    completions,  \* the prompts passed to llm_chat, with what it returned
    response,     \* the HTTP response: status and JSON body
    fnIn,         \* the model reply handed to quiz_generator_node alone
    fnOut         \* what quiz_generator_node returned for fnIn

vars == <<channel, phase, handler, body, node, state, invoked, completions,
          response, fnIn, fnOut>>
reqVars == <<phase, handler, body, node, state, invoked, completions, response>>

EmptyDict == [k \in {} |-> <<>>]
NoResponse == [status |-> 0, json |-> EmptyDict]
NotApplied == [applied |-> FALSE, result |-> EmptyDict]

Idle ==
    /\ phase = "idle"
    /\ handler = "none"
    /\ body = EmptyDict
    /\ node = "__end__"
    /\ state = EmptyDict
    /\ invoked = <<>>
    /\ completions = <<>>
    /\ response = NoResponse

Init ==
    /\ channel \in ChannelModes
    /\ Idle
    /\ fnIn = Reply(<<>>)
    /\ fnOut = NotApplied

Call(name, st, r) == [node |-> name, read |-> st, update |-> r.update]
Completion(name, r, outcome) ==
    [node |-> name, prompt |-> r.prompt, outcome |-> outcome, raised |-> r.raised]

\* the dict returned by study() as a bug would have it: feedback never read
StudyJsonWithoutFeedback(req, result) ==
    [topic          |-> req.topic,
     summary        |-> GetOpt(result, "summary"),
     quiz_questions |-> GetOpt(result, "quiz_questions"),
     quiz_text      |-> GetOpt(result, "quiz_text"),
     feedback       |-> <<>>]

\* the dict returned by study()
StudyJson(req, result) ==
    [topic          |-> req.topic,
     summary        |-> GetOpt(result, "summary"),
     quiz_questions |-> GetOpt(result, "quiz_questions"),
     quiz_text      |-> GetOpt(result, "quiz_text"),
     feedback       |-> Get(result, "feedback", <<>>)]

\* the body of evaluate() as a bug would have it: nothing to grade, no call
EvaluateRunSkippingEmpty(req, outcome) ==
    LET st == EvaluateState(req)
        r  == evaluator_node(st, outcome)
    IN  IF r.prompt.listing = <<>>
        THEN [state |-> st, invoked |-> <<>>, completions |-> <<>>,
              raised |-> FALSE, json |-> [feedback |-> <<>>]]
        ELSE [state       |-> st,
              invoked     |-> <<Call("evaluator", st, r)>>,
              completions |-> <<Completion("evaluator", r, outcome)>>,
              raised      |-> r.raised,
              json        |-> [feedback |-> Get(r.update, "feedback", <<>>)]]

\* the body of evaluate(): the state, the one call of evaluator_node, the
\* dict returned
EvaluateRun(req, outcome) ==
    LET st == EvaluateState(req)
        r  == evaluator_node(st, outcome)
    IN  [state       |-> st,
         invoked     |-> <<Call("evaluator", st, r)>>,
         completions |-> <<Completion("evaluator", r, outcome)>>,
         raised      |-> r.raised,
         json        |-> [feedback |-> Get(r.update, "feedback", <<>>)]]

\* POST /api/study, up to graph.invoke: the body is validated against
\* StudyRequest (FastAPI answers 422 itself when it does not fit) and the
\* graph is entered with {"topic": req.topic}
StudyBegin(b) ==
    /\ phase = "idle"
    /\ handler' = "study"
    /\ body' = b
    /\ invoked' = <<>>
    /\ completions' = <<>>
    /\ LET req == StudyRequest(b)
       IN  IF req.valid
           THEN /\ state' = [k \in {"topic"} |-> req.topic]
                /\ node' = Successor("__start__")
                /\ phase' = "running"
                /\ response' = NoResponse
           ELSE /\ state' = EmptyDict
                /\ node' = "__end__"
                /\ phase' = "responded"
                /\ response' = [status |-> Unprocessable, json |-> EmptyDict]
    /\ UNCHANGED <<channel, fnIn, fnOut>>

\* one step of graph.invoke: the next node runs on the state, its mapping
\* updates the state, the graph moves along the node's edge
GraphStep(name) ==
    /\ phase = "running"
    /\ node = name
    /\ \E outcome \in Outcomes :
         LET r == RunNode(name, state, outcome)
         IN  /\ invoked' = Append(invoked, Call(name, state, r))
             /\ completions' = Append(completions, Completion(name, r, outcome))
             /\ IF r.raised
                THEN /\ phase' = "responded"
                     /\ response' = [status |-> ServerError, json |-> EmptyDict]
                     /\ UNCHANGED <<state, node>>
                ELSE /\ state' = ApplyUpdate(channel, state, r.update)
                     /\ node' = Successor(name)
                     /\ UNCHANGED <<phase, response>>
    /\ UNCHANGED <<channel, handler, body, fnIn, fnOut>>

SummarizerStep == GraphStep("summarizer")
QuizGeneratorStep == GraphStep("quiz_generator")
EvaluatorStep == GraphStep("evaluator")

\* POST /api/study, after graph.invoke: the response built from the result
StudyReturn ==
    /\ phase = "running"
    /\ handler = "study"
    /\ node = "__end__"
    /\ phase' = "responded"
    /\ response' =
         [status |-> Ok,
          json   |-> StudyJson(StudyRequest(body), state)]
    /\ UNCHANGED <<channel, handler, body, node, state, invoked, completions,
                   fnIn, fnOut>>

\* POST /api/evaluate: the body is validated against EvalRequest, then
\* evaluator_node is called directly on the state built from the request
Evaluate(b) ==
    /\ phase = "idle"
    /\ handler' = "evaluate"
    /\ body' = b
    /\ node' = "__end__"
    /\ phase' = "responded"
    /\ LET req == EvalRequest(b)
       IN  IF req.valid
           THEN \E outcome \in Outcomes :
                  LET run == EvaluateRun(req, outcome)
                  IN  /\ state' = run.state
                      /\ invoked' = run.invoked
                      /\ completions' = run.completions
                      /\ response' =
                           IF run.raised
                           THEN [status |-> ServerError, json |-> EmptyDict]
                           ELSE [status |-> Ok, json |-> run.json]
           ELSE /\ state' = EmptyDict
                /\ invoked' = <<>>
                /\ completions' = <<>>
                /\ response' = [status |-> Unprocessable, json |-> EmptyDict]
    /\ UNCHANGED <<channel, fnIn, fnOut>>

\* the request is over: its state is discarded, the server waits for the next
Finish ==
    /\ phase = "responded"
    /\ phase' = "idle"
    /\ handler' = "none"
    /\ body' = EmptyDict
    /\ node' = "__end__"
    /\ state' = EmptyDict
    /\ invoked' = <<>>
    /\ completions' = <<>>
    /\ response' = NoResponse
    /\ UNCHANGED <<channel, fnIn, fnOut>>

Next ==
    \/ \E b \in StudyBodies : StudyBegin(b)
    \/ SummarizerStep
    \/ QuizGeneratorStep
    \/ EvaluatorStep
    \/ StudyReturn
    \/ \E b \in EvalBodies : Evaluate(b)
    \/ Finish

Spec == Init /\ [][Next]_vars

\* --------------------------------------- quiz_generator_node on its own

QuizInit ==
    /\ channel \in ChannelModes
    /\ Idle
    /\ fnIn \in QuizOutcomes
    /\ fnOut = NotApplied

\* quiz_generator_node(state, config) on a state holding a summary, the
\* model answering fnIn
ApplyQuizGenerator ==
    /\ ~fnOut.applied
    /\ fnOut' = [applied |-> TRUE,
                 result  |-> quiz_generator_node(SummaryUpdate(<<"b">>), fnIn)]
    /\ UNCHANGED <<channel, fnIn, reqVars>>

QuizNext == ApplyQuizGenerator

QuizSpec == QuizInit /\ [][QuizNext]_vars

\* ============================================================== claims

NodeNames(calls) == [i \in 1..Len(calls) |-> calls[i].node]
Chain == <<"summarizer", "quiz_generator", "evaluator">>
StudyKeys == {"topic", "summary", "quiz_questions", "quiz_text", "feedback"}
HasTopic == "topic" \in DOMAIN body
\* a request carrying a topic has been answered by the endpoint
Answered(h) == handler = h /\ phase = "responded" /\ HasTopic
\* what a completion call hands back to its node: the trimmed reply, or ""
\* when the call failed
Handed(c) == IF c.outcome.kind = "ok" THEN Strip(c.outcome.content) ELSE <<>>

\* C1 as stated: whatever the topic and whatever the LLM does, the response
\* of POST /api/study holds the keys topic, summary, quiz_questions,
\* quiz_text and feedback, and feedback is exactly the empty string.
C1_FeedbackAlwaysEmpty ==
    Answered("study") =>
        /\ DOMAIN response.json = StudyKeys
        /\ response.json.feedback = <<>>

\* C1 amended: the response of POST /api/study holds the five keys, and
\* feedback is what the Evaluator node, which runs on this path, got from
\* its completion call: the trimmed reply, "" only when that call failed or
\* replied nothing but whitespace.
C1_FeedbackIsEvaluatorReply ==
    Answered("study") =>
        /\ response.status = Ok
        /\ DOMAIN response.json = StudyKeys
        /\ response.json.topic = body.topic
        /\ Len(completions) >= 1
        /\ completions[Len(completions)].node = "evaluator"
        /\ response.json.feedback = Handed(completions[Len(completions)])

\* a study response whose feedback is a non-empty text
C1_Witness ==
    /\ Answered("study")
    /\ response.status = Ok
    /\ response.json.feedback = <<"a">>

\* C2 as stated: one POST /api/study request runs the Summarizer and the
\* QuizGenerator and stops before grading: the Evaluator is never invoked
\* and exactly two completion calls are issued.
C2_StopsBeforeGrading ==
    Answered("study") =>
        /\ Len(completions) = 2
        /\ \A i \in 1..Len(invoked) : invoked[i].node # "evaluator"

\* C2 amended: one POST /api/study request runs the whole graph, the
\* Summarizer, the QuizGenerator and then the Evaluator: exactly three
\* completion calls are issued, one by each node in that order, the third
\* being the grading prompt with no question/answer pair.
C2_ThreeCompletions ==
    /\ handler = "study" => Len(completions) <= 3
    /\ Answered("study") =>
        /\ Len(completions) = 3
        /\ NodeNames(completions) = Chain
        /\ \A i \in 1..3 : completions[i].prompt.template = Chain[i]
        /\ completions[3].prompt.listing = <<>>

\* a study request answered after its grading call got a reply
C2_Witness ==
    /\ Answered("study")
    /\ Len(completions) = 3
    /\ completions[3].node = "evaluator"
    /\ completions[3].outcome.kind = "ok"

\* C3: whenever a completion call fails (network fault, no choice, no
\* content) llm_chat hands back "" and raises nothing, the calling node
\* still returns its mapping with summary / quiz_text / feedback set to "",
\* and both endpoints answer with success, never with a server error.
C3_FailureIsolation ==
    /\ response.status # ServerError
    /\ (phase = "responded" /\ HasTopic) => response.status = Ok
    /\ Len(invoked) = Len(completions)
    /\ \A i \in 1..Len(completions) :
         completions[i].outcome.kind \in FailureKinds =>
            /\ ~completions[i].raised
            /\ invoked[i].node = completions[i].node
            /\ CASE invoked[i].node = "summarizer" ->
                      /\ DOMAIN invoked[i].update = {"summary"}
                      /\ invoked[i].update["summary"] = <<>>
                 [] invoked[i].node = "quiz_generator" ->
                      /\ DOMAIN invoked[i].update = {"quiz_text", "quiz_questions"}
                      /\ invoked[i].update["quiz_text"] = <<>>
                 [] invoked[i].node = "evaluator" ->
                      /\ DOMAIN invoked[i].update = {"feedback"}
                      /\ invoked[i].update["feedback"] = <<>>
    /\ (Answered("evaluate") /\ completions[1].outcome.kind \in FailureKinds) =>
            response.json = [feedback |-> <<>>]

\* a study request answered with success although each of its three
\* completion calls failed, in three different ways
C3_Witness ==
    /\ Answered("study")
    /\ response.status = Ok
    /\ Len(completions) = 3
    /\ completions[1].outcome.kind = "network_error"
    /\ completions[2].outcome.kind = "no_choices"
    /\ completions[3].outcome.kind = "no_content"

\* C4 as stated: missing fields are defaulted, never rejected: a request to
\* either endpoint whose body has no topic is processed as if topic were ""
\* and never produces a client error.
C4_MissingTopicDefaulted ==
    (phase = "responded" /\ ~HasTopic) =>
        /\ response.status # Unprocessable
        /\ invoked # <<>>
        /\ invoked[1].read["topic"] = <<>>

\* C4 amended: summary, quiz_questions and user_answers absent from a
\* /api/evaluate body are treated as "" / the empty sequence and the request
\* is answered with success; topic is required on both endpoints: a body
\* with no topic is rejected with a client error (422) before any node runs.
C4_OptionalDefaultedTopicRequired ==
    /\ (phase = "responded" /\ ~HasTopic) =>
          /\ response.status = Unprocessable
          /\ invoked = <<>>
          /\ completions = <<>>
    /\ Answered("evaluate") =>
          /\ response.status = Ok
          /\ Len(invoked) = 1
          /\ invoked[1].read["topic"] = body.topic
          /\ \A k \in {"summary", "quiz_questions", "user_answers"} :
                invoked[1].read[k] = (IF k \in DOMAIN body THEN body[k] ELSE <<>>)
          /\ ("summary" \notin DOMAIN body) =>
                completions[1].prompt.summary = <<>>
          /\ ("quiz_questions" \notin DOMAIN body \/ "user_answers" \notin DOMAIN body) =>
                completions[1].prompt.listing = <<>>

\* an /api/evaluate request holding a topic and nothing else, answered with
\* success
C4_Witness ==
    /\ Answered("evaluate")
    /\ DOMAIN body = {"topic"}
    /\ response.status = Ok
    /\ invoked[1].read["quiz_questions"] = <<>>

\* C5: for quiz_questions of length m and user_answers of length n the
\* grading prompt lists exactly min(m, n) pairs, numbered 1..min(m, n), pair
\* i being (quiz_questions[i], user_answers[i]); the surplus of the longer
\* sequence is dropped, and nothing is raised.
C5_ZipToShortest ==
    Answered("evaluate") =>
        LET qs == Get(body, "quiz_questions", <<>>)
            as == Get(body, "user_answers", <<>>)
            ls == completions[1].prompt.listing
        IN  /\ response.status = Ok
            /\ Len(ls) <= Len(qs)
            /\ Len(ls) <= Len(as)
            /\ Len(ls) = Len(qs) \/ Len(ls) = Len(as)
            /\ \A i \in 1..Len(ls) :
                 /\ ls[i].n = i
                 /\ ls[i].q = qs[i]
                 /\ ls[i].a = as[i]

\* three questions and one answer give exactly one pair
C5_Witness ==
    /\ Answered("evaluate")
    /\ "quiz_questions" \in DOMAIN body
    /\ "user_answers" \in DOMAIN body
    /\ Len(body["quiz_questions"]) = 3
    /\ Len(body["user_answers"]) = 1
    /\ Len(completions[1].prompt.listing) = 1

\* C8: every POST /api/evaluate issues exactly one completion call, made by
\* the Evaluator, and runs neither the Summarizer nor the QuizGenerator;
\* with no question and no answer the prompt lists no pair and the call is
\* still issued.
C8_EvaluateOneCompletion ==
    Answered("evaluate") =>
        /\ Len(completions) = 1
        /\ completions[1].node = "evaluator"
        /\ completions[1].prompt.template = "evaluator"
        /\ NodeNames(invoked) = <<"evaluator">>
        /\ (Get(body, "quiz_questions", <<>>) = <<>>
            /\ Get(body, "user_answers", <<>>) = <<>>) =>
                completions[1].prompt.listing = <<>>
        /\ response.json.feedback = Handed(completions[1])

\* an /api/evaluate request with quiz_questions = [] and user_answers = []
\* whose one completion call was issued and answered
C8_Witness ==
    /\ Answered("evaluate")
    /\ "quiz_questions" \in DOMAIN body /\ body["quiz_questions"] = <<>>
    /\ "user_answers" \in DOMAIN body /\ body["user_answers"] = <<>>
    /\ Len(completions) = 1
    /\ completions[1].prompt.listing = <<>>
    /\ response.json.feedback = <<"a">>

\* C9: one invocation of the compiled graph runs Summarizer, QuizGenerator,
\* Evaluator as a total order: entered at Summarizer, each node once, the
\* next node being the one after the last that ran; QuizGenerator's prompt
\* holds the summary Summarizer returned, Evaluator reads the quiz_questions
\* QuizGenerator returned; the invocation ends after Evaluator and only then.
C9_TotalOrder ==
    handler = "study" =>
        LET n == Len(invoked)
        IN  /\ n <= 3
            /\ NodeNames(invoked) = SubSeq(Chain, 1, n)
            /\ phase = "running" =>
                  node = (IF n < 3 THEN Chain[n + 1] ELSE "__end__")
            /\ (phase = "responded" /\ HasTopic) => n = 3
            /\ n >= 1 => invoked[1].read = [k \in {"topic"} |-> body.topic]
            /\ n >= 2 =>
                  /\ invoked[2].read["summary"] = invoked[1].update["summary"]
                  /\ completions[2].prompt.summary = invoked[1].update["summary"]
            /\ n >= 3 =>
                  invoked[3].read["quiz_questions"] = invoked[2].update["quiz_questions"]

\* an invocation that ran the three nodes, the quiz generator having parsed
\* two questions that the evaluator then read
C9_Witness ==
    /\ handler = "study"
    /\ phase = "running"
    /\ node = "__end__"
    /\ NodeNames(invoked) = Chain
    /\ invoked[3].read["quiz_questions"] = << <<"a">>, <<"b">> >>

\* ------------------------------------------- claims on quiz_generator_node

QuizText == fnOut.result.update["quiz_text"]
QuizQuestions == fnOut.result.update["quiz_questions"]

\* position i of text t is the first character of its line that is not
\* whitespace
StartsLine(t, i) ==
    /\ t[i] \notin Whitespace
    /\ \A j \in 1..(i - 1) :
         t[j] \notin Whitespace => \E k \in (j + 1)..(i - 1) : t[k] \in LineBreaks

\* no line of the text starts with a digit or a hyphen
NoMarkedLine(t) ==
    \A i \in 1..Len(t) : StartsLine(t, i) => t[i] \notin Digits \cup {"-"}

\* C6: the quiz_questions of the QuizGenerator is never empty, whatever the
\* model replies, the empty text and a failed call included: when the parse
\* keeps no question, in particular when no line starts with a digit or a
\* hyphen, the result is the one-element sequence [raw text]; a kept
\* question is never empty.
C6_NeverEmpty ==
    fnOut.applied =>
        /\ Len(QuizQuestions) >= 1
        /\ NoMarkedLine(QuizText) => QuizQuestions = <<QuizText>>
        /\ QuizQuestions = <<QuizText>>
           \/ \A i \in 1..Len(QuizQuestions) : QuizQuestions[i] # <<>>

\* the model replied nothing but whitespace: the one question is ""
C6_Witness ==
    /\ fnOut.applied
    /\ fnIn.kind = "ok"
    /\ fnIn.content = <<" ">>
    /\ QuizQuestions = << <<>> >>

\* the number of leading digits of a line
LeadingDigits(l) ==
    IF \A i \in 1..Len(l) : l[i] \in Digits THEN Len(l)
    ELSE SetMin({i \in 1..Len(l) : l[i] \notin Digits}) - 1

\* a line "<digits>. <question text>" whose question text holds a character
\* that is not whitespace
WellFormedLine(l) ==
    LET d == LeadingDigits(l)
    IN  /\ d >= 1
        /\ Len(l) >= d + 3
        /\ l[d + 1] = "."
        /\ l[d + 2] = " "
        /\ \E i \in (d + 3)..Len(l) : l[i] \notin Whitespace

\* the question text of a well-formed line, trimmed
QuestionText(l) == Strip(SubSeq(l, LeadingDigits(l) + 3, Len(l)))

\* the lines of a text: the pieces between its line breaks
TextLines(t) ==
    LET brk == <<0>> \o SelectSeq([i \in 1..Len(t) |-> i], LAMBDA i : t[i] \in LineBreaks)
                    \o <<Len(t) + 1>>
    IN  [i \in 1..(Len(brk) - 1) |-> SubSeq(t, brk[i] + 1, brk[i + 1] - 1)]

WellFormed(t) ==
    /\ t # <<>>
    /\ \A i \in 1..Len(TextLines(t)) : WellFormedLine(TextLines(t)[i])

\* C7: on raw text made of k lines "<digits>. <question text>", the question
\* text not blank, the parse yields exactly k questions in the order of the
\* lines, each the trimmed question text with its numbering stripped;
\* quiz_text is the raw text as llm_chat returned it.
C7_NumberedLines ==
    fnOut.applied =>
        /\ QuizText = (IF fnIn.kind = "ok" THEN Strip(fnIn.content) ELSE <<>>)
        /\ WellFormed(QuizText) =>
             /\ Len(QuizQuestions) = Len(TextLines(QuizText))
             /\ \A i \in 1..Len(QuizQuestions) :
                  QuizQuestions[i] = QuestionText(TextLines(QuizText)[i])

\* "12. a.b" and "2. b" give the questions "a.b" and "b" in that order
C7_Witness ==
    /\ fnOut.applied
    /\ QuizText = <<"1", "2", ".", " ", "a", ".", "b", "\n", "2", ".", " ", "b">>
    /\ QuizQuestions = << <<"a", ".", "b">>, <<"b">> >>

\* the trimmed lines of the text that start with a digit or a hyphen
KeptLines(t) ==
    SelectSeq([i \in 1..Len(SplitLines(t)) |-> Strip(SplitLines(t)[i])], KeepLine)

\* the trimmed portion of a line that follows its first period; nothing
\* when the line holds no period
AfterFirstPeriod(l) ==
    LET ps == {i \in 1..Len(l) : l[i] = "."}
    IN  IF ps = {} THEN <<>> ELSE Strip(SubSeq(l, SetMin(ps) + 1, Len(l)))

\* C10 as stated: each kept line gives the trimmed portion that follows its
\* first period, and gives a question only if that portion is not empty; so
\* outside the fallback no question holds the numbering or hyphen prefix of
\* its line, lines without any period included.
C10_PrefixAlwaysStripped ==
    fnOut.applied =>
        LET portions == SelectSeq([i \in 1..Len(KeptLines(QuizText)) |->
                                      AfterFirstPeriod(KeptLines(QuizText)[i])],
                                  LAMBDA q : q # <<>>)
        IN  /\ portions # <<>> => QuizQuestions = portions
            /\ portions = <<>> => QuizQuestions = <<QuizText>>

====
